---- MODULE Spec2Model ----
(***************************************************************************)
(* AssimpExportWrapper: the pybind11 adapter around one Assimp::Importer   *)
(* and one Assimp::Exporter.  Two variants of the class exist: the one     *)
(* with the enable_logging flag (src/src/assimp_export.cpp) and the one    *)
(* without any logging (src/unnamed/part_000).  Three wrapper objects are  *)
(* driven in lockstep with the same calls against the same files: the      *)
(* logging variant built with enable_logging = true ("logging"), the same  *)
(* variant built with the default ("quiet"), and the plain variant         *)
(* ("plain").                                                              *)
(*                                                                         *)
(* The Assimp library itself is not part of the repository.  Its two       *)
(* handles are modelled from the data model of the specification: each     *)
(* handle holds one last-error string, empty at construction, overwritten  *)
(* by every ReadFile (resp. Export) call on that handle.                   *)
(***************************************************************************)
EXTENDS Integers, Sequences, FiniteSets, TLC

VARIABLES wrapper, op, nCalls, conv, pre

vars == <<wrapper, op, nCalls, conv, pre>>

\* bounds of the model
MaxCalls == 3
MaxFormats == 3

Wrappers == {"logging", "quiet", "plain"}

(***************************************************************************)
(* The files the calls are made on.  What the importer makes of an input   *)
(* file, and whether an output path can be written, is a property of the   *)
(* file system the three wrappers share.                                   *)
(***************************************************************************)
UsdzFiles == {"missing.usdz", "model.usdz", "partial.usdz", "noroot.usdz", "broken.usdz"}

ObjFiles == {"out.obj", "nodir/out.obj"}

Writable(path) == path = "out.obj"

AI_SCENE_FLAGS_INCOMPLETE == "AI_SCENE_FLAGS_INCOMPLETE"

AI_SUCCESS == "AI_SUCCESS"

AI_FAILURE == "AI_FAILURE"

\* the null aiScene pointer
NullScene == [id |-> 0, mFlags |-> {}, mRootNode |-> FALSE, mNumMeshes |-> 0, mNumMaterials |-> 0, mNumTextures |-> 0]

\* the aiScene the importer builds from a readable file; id names the object
Asset(pFile, id) ==
  CASE pFile = "model.usdz" ->
         [id |-> id, mFlags |-> {}, mRootNode |-> TRUE, mNumMeshes |-> 12, mNumMaterials |-> 3, mNumTextures |-> 0]
    [] pFile = "partial.usdz" ->
         [id |-> id, mFlags |-> {AI_SCENE_FLAGS_INCOMPLETE}, mRootNode |-> TRUE, mNumMeshes |-> 0, mNumMaterials |-> 1, mNumTextures |-> 0]
    [] pFile = "noroot.usdz" ->
         [id |-> id, mFlags |-> {}, mRootNode |-> FALSE, mNumMeshes |-> 1, mNumMaterials |-> 1, mNumTextures |-> 0]
    [] pFile = "broken.usdz" ->
         [id |-> id, mFlags |-> {AI_SCENE_FLAGS_INCOMPLETE}, mRootNode |-> FALSE, mNumMeshes |-> 0, mNumMaterials |-> 0, mNumTextures |-> 0]
    [] OTHER -> NullScene

\* a scene that reaches the caller flawed (incomplete, or without a root node)
Flawed(scene) == scene # NullScene /\ (AI_SCENE_FLAGS_INCOMPLETE \in scene.mFlags \/ ~scene.mRootNode)

\* the export formats a registry may hold
FormatDescs ==
  { [id |-> "obj", description |-> "Wavefront OBJ format"],
    [id |-> "stl", description |-> "Stereolithography"],
    [id |-> "x", description |-> "X Files"] }

BuiltinFormats ==
  << [id |-> "obj", description |-> "Wavefront OBJ format"],
     [id |-> "stl", description |-> "Stereolithography"] >>

Registries == UNION { [1..n -> FormatDescs] : n \in 0..MaxFormats }

(***************************************************************************)
(* The library handles.                                                    *)
(***************************************************************************)
\* Assimp::Importer(): no scene, no error
Importer_new == [err |-> "", scene |-> NullScene]

\* Assimp::Exporter(): the registered formats, no error
Exporter_new(formats) == [err |-> "", formats |-> formats]

\* Importer::GetErrorString, Exporter::GetErrorString
GetErrorString(handle) == handle.err

\* Exporter::GetExportFormatCount
GetExportFormatCount(e) == Len(e.formats)

\* Exporter::GetExportFormatDescription, index from 0
GetExportFormatDescription(e, i) == e.formats[i + 1]

(***************************************************************************)
(* Importer::ReadFile on wrapper w: the previous scene is dropped, the     *)
(* importer's error string is overwritten (a message when no scene is      *)
(* produced; for a flawed scene a message or none, as warn says; nothing   *)
(* for a sound scene), and the call is appended to the trace.              *)
(***************************************************************************)
ReadFile(w, pFile, pFlags, warn, id) ==
  LET scene == Asset(pFile, id)
      err == IF scene = NullScene THEN "Unable to open file " \o pFile
             ELSE IF Flawed(scene) /\ warn THEN "Incomplete data in " \o pFile
             ELSE ""
  IN [w EXCEPT !.importer = [err |-> err, scene |-> scene],
               !.trace = Append(@, [fn |-> "ReadFile", file |-> pFile, scene |-> scene.id, err |-> err, result |-> IF scene = NullScene THEN AI_FAILURE ELSE AI_SUCCESS])]

(***************************************************************************)
(* Exporter::Export on wrapper w: the exporter's error string is           *)
(* overwritten (nothing on success, a message on failure), the file is     *)
(* written on success, and the call is appended to the trace.              *)
(***************************************************************************)
Export(w, scene, pFormatId, pPath) ==
  LET ok == Writable(pPath)
      err == IF ok THEN "" ELSE "could not open output file " \o pPath
      result == IF ok THEN AI_SUCCESS ELSE AI_FAILURE
  IN [w |-> [w EXCEPT !.exporter.err = err,
                      !.fs[pPath] = IF ok THEN scene.id ELSE @,
                      !.trace = Append(@, [fn |-> "Export", file |-> pPath, scene |-> scene.id, err |-> err, result |-> result])],
      result |-> result]

(***************************************************************************)
(* std::to_string on an unsigned count.                                    *)
(***************************************************************************)
Digit(d) == CASE d = 0 -> "0" [] d = 1 -> "1" [] d = 2 -> "2" [] d = 3 -> "3" [] d = 4 -> "4"
              [] d = 5 -> "5" [] d = 6 -> "6" [] d = 7 -> "7" [] d = 8 -> "8" [] OTHER -> "9"

RECURSIVE to_string(_)
to_string(n) == IF n < 10 THEN Digit(n) ELSE to_string(n \div 10) \o Digit(n % 10)

(***************************************************************************)
(* The wrapper object.  Beside the class's members (importer, exporter,    *)
(* enable_logging) a wrapper carries what a caller observes of it: out,    *)
(* the lines written to std::cout by the last operation; ret, the value    *)
(* the last operation returned (b of usdzToObj, s of getLastError, l of    *)
(* getSupportedFormats); trace, the ReadFile and Export calls made by the  *)
(* most recent usdzToObj; fs, the output files by the scene written to     *)
(* them (0: not written); prev, the list returned by the operation just    *)
(* before the last one when that was getSupportedFormats.                  *)
(***************************************************************************)
NoRet == [b |-> FALSE, s |-> "", l |-> <<>>]

NoPrev == [isFormats |-> FALSE, l |-> <<>>]

\* AssimpExportWrapper(bool enableLogging = false)
AssimpExportWrapper(enableLogging, formats) ==
  [ importer |-> Importer_new,
    exporter |-> Exporter_new(formats),
    enable_logging |-> enableLogging,
    out |-> IF enableLogging THEN << "[assimp_export] Logger enabled" >> ELSE <<>>,
    ret |-> NoRet,
    trace |-> <<>>,
    fs |-> [p \in ObjFiles |-> 0],
    prev |-> NoPrev ]

\* the implicit constructor of the plain variant: it has no logging flag
AssimpExportWrapper_plain(formats) ==
  [ importer |-> Importer_new,
    exporter |-> Exporter_new(formats),
    enable_logging |-> FALSE,
    out |-> <<>>,
    ret |-> NoRet,
    trace |-> <<>>,
    fs |-> [p \in ObjFiles |-> 0],
    prev |-> NoPrev ]

\* mutant of log: the flag is not consulted
log_unconditional(w, msg) == [w EXCEPT !.out = Append(@, "[assimp_export] " \o msg)]

\* void log(const std::string& msg) const
log(w, msg) ==
  IF w.enable_logging
    THEN [w EXCEPT !.out = Append(@, "[assimp_export] " \o msg)]
    ELSE w

RECURSIVE formatsLoop(_, _, _)
\* the for loop of getSupportedFormats, from index i on
formatsLoop(e, i, formats) ==
  IF i < GetExportFormatCount(e)
    THEN LET desc == GetExportFormatDescription(e, i)
         IN formatsLoop(e, i + 1, Append(formats, desc.id \o " - " \o desc.description))
    ELSE formats

RECURSIVE formatsLoop_short(_, _, _)
\* the loop with its bound one short
formatsLoop_short(e, i, formats) ==
  IF i + 1 < GetExportFormatCount(e)
    THEN LET desc == GetExportFormatDescription(e, i)
         IN formatsLoop_short(e, i + 1, Append(formats, desc.id \o " - " \o desc.description))
    ELSE formats

\* mutant of getSupportedFormats: the last registered format is left out
getSupportedFormats_short(w) == formatsLoop_short(w.exporter, 0, <<>>)

\* std::vector<std::string> getSupportedFormats()
getSupportedFormats(w) == formatsLoop(w.exporter, 0, <<>>)

RECURSIVE formatsLoop_plain(_, _, _)
\* the for loop of the plain variant's getSupportedFormats
formatsLoop_plain(e, i, formats) ==
  IF i < GetExportFormatCount(e)
    THEN LET desc == GetExportFormatDescription(e, i)
         IN formatsLoop_plain(e, i + 1, Append(formats, desc.id \o " - " \o desc.description))
    ELSE formats

\* getSupportedFormats of the plain variant
getSupportedFormats_plain(w) == formatsLoop_plain(w.exporter, 0, <<>>)

\* the post-processing flags or-ed together for ReadFile
ppFlags == {"aiProcess_Triangulate", "aiProcess_FlipUVs", "aiProcess_GenSmoothNormals", "aiProcess_JoinIdenticalVertices"}

\* return from usdzToObj with value b
Return(w, b) == [w EXCEPT !.ret = [b |-> b, s |-> "", l |-> <<>>]]

\* mutant of usdzToObj: the root-node check is missing
usdzToObj_noRootCheck(w0, usdzFile, objFile, warn, id) ==
  LET w5 == ReadFile(w0, usdzFile, ppFlags, warn, id)
      scene == w5.importer.scene
  IN IF scene = NullScene THEN Return(log(w5, "Import failed"), FALSE)
     ELSE IF AI_SCENE_FLAGS_INCOMPLETE \in scene.mFlags THEN Return(log(w5, "Import failed"), FALSE)
     ELSE LET r == Export(w5, scene, "obj", objFile)
          IN Return(log(r.w, "Export done"), r.result = AI_SUCCESS)

\* mutant of usdzToObj: the export is started before the scene is checked
usdzToObj_eagerExport(w0, usdzFile, objFile, warn, id) ==
  LET w5 == ReadFile(w0, usdzFile, ppFlags, warn, id)
      scene == w5.importer.scene
      r == Export(w5, scene, "obj", objFile)
  IN IF scene = NullScene THEN Return(log(w5, "Import failed"), FALSE)
     ELSE IF AI_SCENE_FLAGS_INCOMPLETE \in scene.mFlags \/ ~scene.mRootNode
       THEN Return(log(r.w, "Import failed"), FALSE)
       ELSE Return(log(r.w, "Export done"), r.result = AI_SUCCESS)

\* bool usdzToObj(const std::string& usdzFile, const std::string& objFile)
usdzToObj(w0, usdzFile, objFile, warn, id) ==
  LET w1 == log(w0, "Start converting USDZ -> OBJ")
      w2 == log(w1, "Input: " \o usdzFile)
      w3 == log(w2, "Output: " \o objFile)
      w4 == log(w3, "Post-process flags: Triangulate | FlipUVs | GenSmoothNormals | JoinIdenticalVertices")
      w5 == ReadFile(w4, usdzFile, ppFlags, warn, id)
      scene == w5.importer.scene
  IN IF scene = NullScene
       THEN LET err == GetErrorString(w5.importer)
            IN Return(log(w5, "Import failed: " \o (IF err = "" THEN "<no error string>" ELSE err)), FALSE)
     ELSE IF AI_SCENE_FLAGS_INCOMPLETE \in scene.mFlags
       THEN Return(log(log(w5, "Import failed: scene is incomplete (AI_SCENE_FLAGS_INCOMPLETE)"),
                       "Importer error: " \o GetErrorString(w5.importer)), FALSE)
     ELSE IF ~scene.mRootNode
       THEN Return(log(log(w5, "Import failed: scene->mRootNode is null"),
                       "Importer error: " \o GetErrorString(w5.importer)), FALSE)
     ELSE LET w6 == log(w5, "Import succeeded.")
              w7 == log(w6, "Meshes: " \o to_string(scene.mNumMeshes)
                            \o ", Materials: " \o to_string(scene.mNumMaterials)
                            \o ", Textures: " \o to_string(scene.mNumTextures))
              w8 == log(w7, "Begin export to OBJ...")
              r == Export(w8, scene, "obj", objFile)
          IN IF r.result # AI_SUCCESS
               THEN LET err == GetErrorString(r.w.exporter)
                    IN Return(log(r.w, "Export failed: " \o (IF err = "" THEN "<no error string>" ELSE err)), FALSE)
               ELSE Return(log(r.w, "Export succeeded."), TRUE)

\* mutant of the plain usdzToObj: the root-node check is missing
usdzToObj_plain_noRootCheck(w0, usdzFile, objFile, warn, id) ==
  LET w1 == ReadFile(w0, usdzFile, ppFlags, warn, id)
      scene == w1.importer.scene
  IN IF scene = NullScene \/ AI_SCENE_FLAGS_INCOMPLETE \in scene.mFlags
       THEN Return(w1, FALSE)
       ELSE LET r == Export(w1, scene, "obj", objFile)
            IN Return(r.w, r.result = AI_SUCCESS)

\* usdzToObj of the plain variant
usdzToObj_plain(w0, usdzFile, objFile, warn, id) ==
  LET w1 == ReadFile(w0, usdzFile, ppFlags, warn, id)
      scene == w1.importer.scene
  IN IF scene = NullScene \/ AI_SCENE_FLAGS_INCOMPLETE \in scene.mFlags \/ ~scene.mRootNode
       THEN Return(w1, FALSE)
       ELSE LET r == Export(w1, scene, "obj", objFile)
            IN Return(r.w, r.result = AI_SUCCESS)

\* mutant of getLastError: the export error is looked at first
getLastError_exportFirst(w) ==
  LET importError == GetErrorString(w.importer)
      exportError == GetErrorString(w.exporter)
  IN IF exportError # "" THEN "Export: " \o exportError
     ELSE IF importError # "" THEN "Import: " \o importError
     ELSE ""

\* mutant of getLastError: the import error is returned without the empty test
getLastError_noEmptyTest(w) == "Import: " \o GetErrorString(w.importer)

\* std::string getLastError()
getLastError(w) ==
  LET importError == GetErrorString(w.importer)
      exportError == GetErrorString(w.exporter)
  IN IF importError # "" THEN "Import: " \o importError
     ELSE IF exportError # "" THEN "Export: " \o exportError
     ELSE ""

\* getLastError of the plain variant
getLastError_plain(w) ==
  LET importError == GetErrorString(w.importer)
      exportError == GetErrorString(w.exporter)
  IN IF importError # "" THEN "Import: " \o importError
     ELSE IF exportError # "" THEN "Export: " \o exportError
     ELSE ""

(***************************************************************************)
(* The calls the Python module exposes, made on the three wrappers alike.  *)
(***************************************************************************)
\* what an operation starts from: nothing written yet by it
Enter(w) == [w EXCEPT !.out = <<>>, !.prev = IF op = "getSupportedFormats" THEN [isFormats |-> TRUE, l |-> w.ret.l] ELSE NoPrev]

\* what the most recent usdzToObj call started from
Snapshot(w) == [importErr |-> w.importer.err, exporter |-> w.exporter, fs |-> w.fs]

Init ==
  /\ wrapper = [n \in Wrappers |->
                  IF n = "plain" THEN AssimpExportWrapper_plain(BuiltinFormats)
                  ELSE AssimpExportWrapper(n = "logging", BuiltinFormats)]
  /\ op = "init"
  /\ nCalls = 0
  /\ conv = [usdzFile |-> "", objFile |-> ""]
  /\ pre = [n \in Wrappers |-> Snapshot(wrapper[n])]

\* .def("usdz_to_obj", &AssimpExportWrapper::usdzToObj)
Convert(usdzFile, objFile, warn) ==
  /\ nCalls < MaxCalls
  /\ nCalls' = nCalls + 1
  /\ wrapper' = [n \in Wrappers |->
                   LET w0 == [Enter(wrapper[n]) EXCEPT !.trace = <<>>]
                   IN IF n = "plain"
                        THEN usdzToObj_plain(w0, usdzFile, objFile, warn, nCalls + 1)
                        ELSE usdzToObj(w0, usdzFile, objFile, warn, nCalls + 1)]
  /\ pre' = [n \in Wrappers |-> Snapshot(wrapper[n])]
  /\ conv' = [usdzFile |-> usdzFile, objFile |-> objFile]
  /\ op' = "usdzToObj"

\* .def("get_last_error", &AssimpExportWrapper::getLastError)
GetLastError ==
  /\ wrapper' = [n \in Wrappers |->
                   LET w0 == Enter(wrapper[n])
                   IN [w0 EXCEPT !.ret.s = IF n = "plain" THEN getLastError_plain(w0) ELSE getLastError(w0),
                                 !.ret.l = <<>>]]
  /\ op' = "getLastError"
  /\ UNCHANGED <<nCalls, conv, pre>>

\* .def("get_supported_formats", &AssimpExportWrapper::getSupportedFormats)
GetSupportedFormats ==
  /\ wrapper' = [n \in Wrappers |->
                   LET w0 == Enter(wrapper[n])
                   IN [w0 EXCEPT !.ret.l = IF n = "plain" THEN getSupportedFormats_plain(w0) ELSE getSupportedFormats(w0),
                                 !.ret.s = ""]]
  /\ op' = "getSupportedFormats"
  /\ UNCHANGED <<nCalls, conv, pre>>

Next ==
  \/ \E usdzFile \in UsdzFiles, objFile \in ObjFiles, warn \in BOOLEAN : Convert(usdzFile, objFile, warn)
  \/ GetLastError
  \/ GetSupportedFormats

Spec == Init /\ [][Next]_vars

(***************************************************************************)
(* The format listing over every registry of up to MaxFormats formats.     *)
(***************************************************************************)
InitFormats ==
  /\ \E formats \in Registries :
       wrapper = [n \in Wrappers |->
                    IF n = "plain" THEN AssimpExportWrapper_plain(formats)
                    ELSE AssimpExportWrapper(n = "logging", formats)]
  /\ op = "init"
  /\ nCalls = 0
  /\ conv = [usdzFile |-> "", objFile |-> ""]
  /\ pre = [n \in Wrappers |-> Snapshot(wrapper[n])]

NextFormats ==
  \/ GetLastError
  \/ GetSupportedFormats

SpecFormats == InitFormats /\ [][NextFormats]_vars

(***************************************************************************)
(* Properties.                                                             *)
(***************************************************************************)
StartsWith(s, p) == Len(s) >= Len(p) /\ SubSeq(s, 1, Len(p)) = p

\* the scene the file of the most recent usdzToObj call holds
Imported == Asset(conv.usdzFile, nCalls)

\* the most recent import produced a scene that is complete and has a root node
ImportSound == Imported # NullScene /\ AI_SCENE_FLAGS_INCOMPLETE \notin Imported.mFlags /\ Imported.mRootNode

\* the most recent usdzToObj call of wrapper n invoked Export, and it failed
ExportFailed(n) == Len(wrapper[n].trace) = 2 /\ wrapper[n].trace[2].result = AI_FAILURE

\* C1: usdzToObj returns true if and only if the import produced a scene, the
\* scene is not flagged incomplete, it has a root node, and the export call
\* reported success; in every other case it returns false.
C1_ReturnIffAllFour ==
  nCalls > 0 =>
    \A n \in Wrappers :
      LET t == wrapper[n].trace
      IN wrapper[n].ret.b =
           ( /\ Imported # NullScene
             /\ AI_SCENE_FLAGS_INCOMPLETE \notin Imported.mFlags
             /\ Imported.mRootNode
             /\ Len(t) = 2
             /\ t[2].fn = "Export"
             /\ t[2].result = AI_SUCCESS )

C1_Witness ==
  /\ op = "usdzToObj"
  /\ nCalls >= 2
  /\ \A n \in Wrappers : wrapper[n].ret.b
  /\ \E n \in Wrappers : pre[n].importErr # ""

\* C2: getLastError returns "Import: " + importErr when importErr is not empty,
\* whatever exportErr is; else "Export: " + exportErr when exportErr is not
\* empty; else the empty string.
C2_LastErrorPriority ==
  op = "getLastError" =>
    \A n \in Wrappers :
      LET importErr == wrapper[n].importer.err
          exportErr == wrapper[n].exporter.err
          r == wrapper[n].ret.s
      IN /\ importErr # "" => r = "Import: " \o importErr
         /\ (importErr = "" /\ exportErr # "") => r = "Export: " \o exportErr
         /\ (importErr = "" /\ exportErr = "") => r = ""

C2_Witness ==
  /\ op = "getLastError"
  /\ \A n \in Wrappers :
       /\ wrapper[n].importer.err # ""
       /\ wrapper[n].exporter.err # ""
       /\ StartsWith(wrapper[n].ret.s, "Import: ")

\* C3: getLastError returns the empty string before any operation, and after a
\* usdzToObj call that returned true, whatever calls were made before it.
C3_EmptyWhenFreshOrSucceeded ==
  (op = "getLastError" /\ (nCalls = 0 \/ \A n \in Wrappers : wrapper[n].ret.b)) =>
    \A n \in Wrappers : wrapper[n].ret.s = ""

C3_Witness ==
  /\ op = "getLastError"
  /\ nCalls = 3
  /\ \A n \in Wrappers :
       /\ wrapper[n].ret.b
       /\ pre[n].importErr # ""
       /\ pre[n].exporter.err # ""
       /\ wrapper[n].ret.s = ""

C6_LastErrorOfLastCallOnly ==
  (op = "getLastError" /\ nCalls > 0) =>
    \A n \in Wrappers :
      LET t == wrapper[n].trace
          importErr == t[1].err
          exportErr == IF Len(t) = 2 THEN t[2].err ELSE ""
      IN wrapper[n].ret.s =
           (IF importErr # "" THEN "Import: " \o importErr
            ELSE IF exportErr # "" THEN "Export: " \o exportErr
            ELSE "")

\* C7: the wrapper built with logging, the one built without, and the plain
\* variant return the same values from every call and hold the same handle
\* states after it; they differ in the lines they print only.
C7_LoggingObservational ==
  \A n, m \in Wrappers :
    /\ wrapper[n].ret = wrapper[m].ret
    /\ wrapper[n].importer = wrapper[m].importer
    /\ wrapper[n].exporter = wrapper[m].exporter
    /\ wrapper[n].fs = wrapper[m].fs
    /\ wrapper[n].trace = wrapper[m].trace

C7_Witness ==
  /\ op = "usdzToObj"
  /\ nCalls = 3
  /\ ~ImportSound
  /\ wrapper["logging"].out # wrapper["quiet"].out
  /\ wrapper["logging"].ret = wrapper["plain"].ret
  /\ pre["logging"].exporter.err # ""

\* C8: the logging flag keeps the value it was constructed with; the wrapper
\* built with enable_logging = true prints at least one line in every usdzToObj
\* call, on every exit path; the wrapper built with the default prints no line,
\* at construction or in any operation.
C8_LoggingFlag ==
  /\ wrapper["logging"].enable_logging
  /\ ~wrapper["quiet"].enable_logging
  /\ op = "usdzToObj" => Len(wrapper["logging"].out) >= 1
  /\ op = "init" => Len(wrapper["logging"].out) = 1
  /\ wrapper["quiet"].out = <<>>
  /\ \A i \in 1..Len(wrapper["logging"].out) : StartsWith(wrapper["logging"].out[i], "[assimp_export] ")

C8_Witness ==
  /\ op = "usdzToObj"
  /\ ImportSound
  /\ ExportFailed("logging")
  /\ Len(wrapper["logging"].out) >= 1
  /\ wrapper["quiet"].out = <<>>

\* C9: getSupportedFormats returns one string per registered format, the i-th
\* being "<id> - <description>" of the i-th format, in registration order; an
\* empty registry gives the empty sequence; a call right after another returns
\* the same sequence.
C9_FormatsListed ==
  op = "getSupportedFormats" =>
    \A n \in Wrappers :
      LET l == wrapper[n].ret.l
          f == wrapper[n].exporter.formats
      IN /\ Len(l) = Len(f)
         /\ \A i \in 1..Len(f) : l[i] = f[i].id \o " - " \o f[i].description
         /\ wrapper[n].prev.isFormats => wrapper[n].prev.l = l

C9_Witness ==
  /\ op = "getSupportedFormats"
  /\ \A n \in Wrappers :
       /\ wrapper[n].prev.isFormats
       /\ Len(wrapper[n].ret.l) >= 2
       /\ wrapper[n].ret.l[1] # wrapper[n].ret.l[2]

\* C10: a usdzToObj call invokes ReadFile once, first; it invokes Export at
\* most once, only when that ReadFile produced a complete scene with a root
\* node, and on the scene that ReadFile produced; when the import stage fails
\* Export is not invoked, and the exporter's error string and the output files
\* are as they were before the call.
C10_ImportThenExport ==
  nCalls > 0 =>
    \A n \in Wrappers :
      LET t == wrapper[n].trace
      IN /\ Len(t) \in {1, 2}
         /\ t[1].fn = "ReadFile"
         /\ t[1].scene = Imported.id
         /\ Len(t) = 2 =>
              /\ t[2].fn = "Export"
              /\ ImportSound
              /\ t[2].scene = t[1].scene
              /\ t[2].scene = nCalls
              /\ t[2].scene = wrapper[n].importer.scene.id
         /\ ~ImportSound =>
              /\ Len(t) = 1
              /\ wrapper[n].exporter = pre[n].exporter
              /\ wrapper[n].fs = pre[n].fs

C10_Witness ==
  /\ op = "usdzToObj"
  /\ nCalls = 3
  /\ ~ImportSound
  /\ \A n \in Wrappers :
       /\ Len(wrapper[n].trace) = 1
       /\ wrapper[n].exporter.err # ""
       /\ wrapper[n].fs["out.obj"] # 0

====
